---------------------------- MODULE Spec2Model ----------------------------
(***************************************************************************)
(* AshInv/Plot.py: the field reconstruction (expandVariable), the pruning  *)
(* done by readJson, and the adaptive downsampler (downsample) with its    *)
(* caller plotAshInvMatrix.                                                *)
(*                                                                         *)
(* Conventions.  A matrix is a sequence of rows.  Index VALUES (entries of *)
(* ordering_index, valid_times, slice bounds) are Python's, 0-based; a     *)
(* position p of the code is element p+1 of the TLA+ sequence.             *)
(* An optional value (a masked-array cell, a keyword argument that may be  *)
(* None) is <<>> when absent and <<v>> when present.                       *)
(***************************************************************************)
EXTENDS Integers, Sequences, FiniteSets, TLC

VARIABLES
    pc,          \* readJson: position in the function body
    json_data,   \* readJson: the dictionary json_data (the keys the code computes with)
    kwargs,      \* readJson: prune, prune_zero, valid_times_min, valid_times_max as passed
    outcome,     \* readJson: "running", "returned", or the exception that left the call
    ppc,         \* plotAshInvMatrix: position in the function body
    matrix,      \* plotAshInvMatrix: the content of the caller's array
    args,        \* plotAshInvMatrix: do_downsample, rebin_type and the target fig_size
    m,           \* plotAshInvMatrix: what the local m refers to
    fresh,       \* plotAshInvMatrix: the content of the array downsample allocated, if any
    perr,        \* plotAshInvMatrix: the exception that left the call, or "none"
    fpc,         \* find_downsample_factor: "called" or "returned"
    fshape,      \* find_downsample_factor: the argument shape, an axis length
    foutput,     \* find_downsample_factor: the argument output, a target length
    ffactor      \* find_downsample_factor: the value returned

rjvars == <<pc, json_data, kwargs, outcome>>
pvars == <<ppc, matrix, args, m, fresh, perr>>
fvars == <<fpc, fshape, foutput, ffactor>>
vars == <<pc, json_data, kwargs, outcome, ppc, matrix, args, m, fresh, perr,
          fpc, fshape, foutput, ffactor>>

\* the variables of the function that is not running
IdleReadJson == pc = "idle" /\ json_data = <<>> /\ kwargs = <<>> /\ outcome = "idle"
IdlePlot == ppc = "idle" /\ matrix = <<>> /\ args = <<>> /\ m = "unbound"
            /\ fresh = <<>> /\ perr = "idle"
IdleFactor == fpc = "idle" /\ fshape = 0 /\ foutput = 0 /\ ffactor = 0

-----------------------------------------------------------------------------
(* Bounds of the readJson model *)
MaxLevels == 2
MaxTimes == 2

(* Bounds of the downsample model: the sides of the input matrix and the
   target lengths *)
MaxDim == 5
MaxTarget == 2

(* Bounds of the find_downsample_factor model: the axis length and the
   target length *)
MaxShape == 36
MaxOutput == 12

\* the values a matrix cell may take, and the rebin_type names tried
Values == {-1, 1}
RebinTypes == {"mean", "median", "max", "min", "sum"}

\* the positions of the flat emission arrays, the masses an emission value
\* may take, and the prune_zero thresholds tried
EmissionIndex == {0, 1}
Mass == {0, 1}
PruneZeros == {0, 1}

-----------------------------------------------------------------------------
(* Generic helpers *)
None == <<>>
Some(v) == <<v>>
masked == <<>>

SetMax(S) == CHOOSE x \in S : \A y \in S : y <= x
SetMin(S) == CHOOSE x \in S : \A y \in S : x <= y

\* arr.shape of a 2D array held as a sequence of rows
Shape(M) == <<Len(M), IF Len(M) = 0 THEN 0 ELSE Len(M[1])>>

\* Python's normalisation of a slice bound i on an axis of length n
SliceBound(i, n) == IF i < 0 THEN (IF i + n < 0 THEN 0 ELSE i + n)
                    ELSE (IF i > n THEN n ELSE i)

\* s[lo:hi]
Slice(s, lo, hi) ==
    LET l == SliceBound(lo, Len(s))
        h == SliceBound(hi, Len(s))
    IN  IF h <= l THEN <<>> ELSE SubSeq(s, l + 1, h)

\* M[:rows, lo:hi]
Slice2D(M, rows, lo, hi) ==
    LET R == Slice(M, 0, rows)
    IN  [a \in 1..Len(R) |-> Slice(R[a], lo, hi)]

-----------------------------------------------------------------------------
(* expandVariable, Plot.py 108-116 *)

\* np.ma.masked_all(ordering_index.shape), then x[a, t] = variable[emis_index]
\* for each t in range(len(emission_times)), a in range(len(level_heights))
\* with emis_index >= 0.  The cells are written independently of each other.
\* mutant: the test "emis_index > 0" in place of "emis_index >= 0"
expandVariableSkipsIndexZero(emission_times, level_heights, ordering_index, variable) ==
    [a \in 1..Shape(ordering_index)[1] |->
        [t \in 1..Shape(ordering_index)[2] |->
            IF /\ t <= Len(emission_times)
               /\ a <= Len(level_heights)
               /\ ordering_index[a][t] > 0
            THEN Some(variable[ordering_index[a][t] + 1])
            ELSE masked]]

expandVariable(emission_times, level_heights, ordering_index, variable) ==
    [a \in 1..Shape(ordering_index)[1] |->
        [t \in 1..Shape(ordering_index)[2] |->
            IF /\ t <= Len(emission_times)
               /\ a <= Len(level_heights)
               /\ ordering_index[a][t] >= 0
            THEN Some(variable[ordering_index[a][t] + 1])
            ELSE masked]]

-----------------------------------------------------------------------------
(* Masked reductions used by the pruning step, Plot.py 91-92 *)

\* x.max(axis=1): per row, the maximum of the unmasked cells, masked if none
MaxAxis1(x) ==
    [a \in 1..Len(x) |->
        LET present == {x[a][t][1] : t \in {u \in 1..Len(x[a]) : x[a][u] # masked}}
        IN  IF present = {} THEN masked ELSE Some(SetMax(present))]

\* x.max(axis=0): per column
MaxAxis0(x) ==
    [t \in 1..Shape(x)[2] |->
        LET present == {x[a][t][1] : a \in {u \in 1..Len(x) : x[u][t] # masked}}
        IN  IF present = {} THEN masked ELSE Some(SetMax(present))]

\* u + v on masked vectors: masked where either operand is
MaskedAdd(u, v) ==
    [i \in 1..Len(u) |->
        IF u[i] = masked \/ v[i] = masked THEN masked ELSE Some(u[i][1] + v[i][1])]

\* np.flatnonzero(s > prune_zero): the 0-based positions where the comparison
\* is true; a masked comparison is filled with False
FlatNonzeroGreater(s, prune_zero) ==
    {i - 1 : i \in {j \in 1..Len(s) : s[j] # masked /\ s[j][1] > prune_zero}}

\* line 91 before max(...) + 1, and line 92
PassingRows(a_priori, a_posteriori, prune_zero) ==
    FlatNonzeroGreater(MaskedAdd(MaxAxis1(a_priori), MaxAxis1(a_posteriori)), prune_zero)

valid_times(a_priori, a_posteriori, prune_zero) ==
    FlatNonzeroGreater(MaskedAdd(MaxAxis0(a_priori), MaxAxis0(a_posteriori)), prune_zero)


\* mutant: the "+ 1" of line 91 forgotten
valid_elevationsOffByOne(rows) == SetMax(rows)

\* line 91: max(np.flatnonzero(...)) + 1; the caller has checked rows # {}
valid_elevations(rows) == SetMax(rows) + 1

\* lines 93-94: min(valid_times) unless the caller gave valid_times_min
TimesMin(vt, valid_times_min) ==
    IF valid_times_min = None THEN SetMin(vt) ELSE valid_times_min[1]

\* lines 95-96: max(valid_times) + 1 unless the caller gave valid_times_max
TimesMax(vt, valid_times_max) ==
    IF valid_times_max = None THEN SetMax(vt) + 1 ELSE valid_times_max[1]

\* mutant: emission_times cropped at its end only (line 101 as [:hi])
CropKeepsEarlyTimes(jd, ve, lo, hi) ==
    [jd EXCEPT !.a_priori = Slice2D(jd.a_priori, ve, lo, hi),
               !.a_posteriori = Slice2D(jd.a_posteriori, ve, lo, hi),
               !.ordering_index = Slice2D(jd.ordering_index, ve, lo, hi),
               !.emission_times = Slice(jd.emission_times, 0, hi),
               !.level_heights = Slice(jd.level_heights, 0, ve)]

\* lines 98-102: the five crops
Crop(jd, ve, lo, hi) ==
    [jd EXCEPT !.a_priori = Slice2D(jd.a_priori, ve, lo, hi),
               !.a_posteriori = Slice2D(jd.a_posteriori, ve, lo, hi),
               !.ordering_index = Slice2D(jd.ordering_index, ve, lo, hi),
               !.emission_times = Slice(jd.emission_times, lo, hi),
               !.level_heights = Slice(jd.level_heights, 0, ve)]

-----------------------------------------------------------------------------
(* readJson, Plot.py 54-104 *)

\* Spec section 3: indices, where present, are unique across the table
UniqueIndices(oi) ==
    \A a1, a2 \in 1..Len(oi) : \A t1, t2 \in 1..Len(oi[1]) :
        (oi[a1][t1] >= 0 /\ oi[a1][t1] = oi[a2][t2]) => (a1 = a2 /\ t1 = t2)

\* The parsed file, lines 61-83.  The table has one row per level and one
\* column per emission time; the labels of both axes are their 0-based
\* positions, so that a cropped label array tells which positions were kept.
\* json_data["a_priori"] and ["a_posteriori"] first hold the flat arrays
\* (lines 77-78); "meta" keeps the file's content (line 69).
InitReadJson ==
    \E A \in 1..MaxLevels, T \in 1..MaxTimes :
      \E oi \in [1..A -> [1..T -> {-1} \cup EmissionIndex]],
         prior \in [1..Cardinality(EmissionIndex) -> Mass],
         post \in [1..Cardinality(EmissionIndex) -> Mass] :
        /\ UniqueIndices(oi)
        /\ json_data =
             [emission_times |-> [t \in 1..T |-> t - 1],
              level_heights |-> [a \in 1..A |-> a - 1],
              ordering_index |-> oi,
              a_priori_2d |-> prior,
              a_posteriori_2d |-> post,
              a_priori |-> prior,
              a_posteriori |-> post,
              meta |-> [ordering_index |-> oi, a_priori_2d |-> prior,
                        a_posteriori_2d |-> post, levels |-> A, times |-> T]]
        /\ pc = "parsed"
        /\ kwargs = None
        /\ outcome = "running"
        /\ IdlePlot
        /\ IdleFactor

\* line 86
ExpandPosteriori ==
    /\ pc = "parsed"
    /\ json_data' = [json_data EXCEPT !.a_posteriori =
            expandVariable(json_data.emission_times, json_data.level_heights,
                           json_data.ordering_index, json_data.a_posteriori)]
    /\ pc' = "posteriori_expanded"
    /\ UNCHANGED <<kwargs, outcome, pvars, fvars>>

\* line 87
ExpandPriori ==
    /\ pc = "posteriori_expanded"
    /\ json_data' = [json_data EXCEPT !.a_priori =
            expandVariable(json_data.emission_times, json_data.level_heights,
                           json_data.ordering_index, json_data.a_priori)]
    /\ pc' = "expanded"
    /\ UNCHANGED <<kwargs, outcome, pvars, fvars>>

\* The keyword arguments are first read at line 90; they are drawn there.
\* An explicit time bound is a column position 0..T.
TimeBounds == {None} \cup {Some(i) : i \in 0..MaxTimes}

\* lines 90-104 with prune=True.  The builtin max / min of an empty
\* flatnonzero result raises ValueError (lines 91, 94, 96).
Prune(prune_zero, vmin, vmax) ==
    /\ pc = "expanded"
    /\ kwargs' = [prune |-> TRUE, prune_zero |-> prune_zero,
                  valid_times_min |-> vmin, valid_times_max |-> vmax]
    /\ LET rows == PassingRows(json_data.a_priori, json_data.a_posteriori, prune_zero)
           vt == valid_times(json_data.a_priori, json_data.a_posteriori, prune_zero)
       IN  IF \/ rows = {}
              \/ (vmin = None /\ vt = {})
              \/ (vmax = None /\ vt = {})
           THEN /\ outcome' = "ValueError"
                /\ pc' = "raised"
                /\ UNCHANGED json_data
           ELSE /\ json_data' = Crop(json_data, valid_elevations(rows),
                                     TimesMin(vt, vmin), TimesMax(vt, vmax))
                /\ outcome' = "returned"
                /\ pc' = "done"
    /\ UNCHANGED <<pvars, fvars>>

\* lines 90, 104 with prune=False
ReturnUnpruned ==
    /\ pc = "expanded"
    /\ kwargs' = [prune |-> FALSE, prune_zero |-> 0,
                  valid_times_min |-> None, valid_times_max |-> None]
    /\ outcome' = "returned"
    /\ pc' = "done"
    /\ UNCHANGED <<json_data, pvars, fvars>>

PruneCall ==
    \E prune_zero \in PruneZeros, vmin \in TimeBounds, vmax \in TimeBounds :
        /\ pc = "expanded"
        /\ vmin # None => vmin[1] <= Len(json_data.emission_times)
        /\ vmax # None => vmax[1] <= Len(json_data.emission_times)
        /\ Prune(prune_zero, vmin, vmax)

NextReadJson == ExpandPosteriori \/ ExpandPriori \/ PruneCall \/ ReturnUnpruned

SpecReadJson == InitReadJson /\ [][NextReadJson]_vars

-----------------------------------------------------------------------------
(* Properties of expandVariable and of the pruning step *)

\* The file's content, kept in json_data.meta, read cell by cell
FileLevels == 1..json_data.meta.levels
FileTimes == 1..json_data.meta.times
FileIndex(a, t) == json_data.meta.ordering_index[a][t]
FilePrior(a, t) ==
    IF FileIndex(a, t) >= 0 THEN <<json_data.meta.a_priori_2d[FileIndex(a, t) + 1]>> ELSE <<>>
FilePost(a, t) ==
    IF FileIndex(a, t) >= 0 THEN <<json_data.meta.a_posteriori_2d[FileIndex(a, t) + 1]>> ELSE <<>>

\* max(A[row,:]) + max(B[row,:]) > threshold: some present cell of A and some
\* present cell of B in the row add up to more than the threshold
RowPasses(a, threshold) ==
    \E t1, t2 \in FileTimes :
        /\ FilePrior(a, t1) # <<>>
        /\ FilePost(a, t2) # <<>>
        /\ FilePrior(a, t1)[1] + FilePost(a, t2)[1] > threshold
ColPasses(t, threshold) ==
    \E a1, a2 \in FileLevels :
        /\ FilePrior(a1, t) # <<>>
        /\ FilePost(a2, t) # <<>>
        /\ FilePrior(a1, t)[1] + FilePost(a2, t)[1] > threshold

Pruned == pc = "done" /\ kwargs.prune
KeptLevels == {json_data.level_heights[i] + 1 : i \in 1..Len(json_data.level_heights)}
KeptTimes == {json_data.emission_times[i] + 1 : i \in 1..Len(json_data.emission_times)}
NoExplicitBounds == kwargs.valid_times_min = None /\ kwargs.valid_times_max = None

ExpandedAs(x, values) ==
    LET oi == json_data.ordering_index
    IN  /\ Len(x) = Len(oi)
        /\ \A a \in 1..Len(oi) :
            /\ Len(x[a]) = Len(oi[a])
            /\ \A t \in 1..Len(oi[a]) :
                /\ oi[a][t] >= 0 => x[a][t] = <<values[oi[a][t] + 1]>>
                /\ oi[a][t] < 0 => x[a][t] = <<>>

\* C1: expandVariable returns a masked matrix of the table's shape whose cell
\* (a, t) is values[ordering_index[a,t]] where that index is >= 0 and is
\* missing where it is negative.
C1_ExpandCorrect ==
    /\ pc \in {"posteriori_expanded", "expanded"} =>
            ExpandedAs(json_data.a_posteriori, json_data.a_posteriori_2d)
    /\ pc = "expanded" => ExpandedAs(json_data.a_priori, json_data.a_priori_2d)

C1_Witness ==
    /\ pc = "expanded"
    /\ \E a \in 1..Len(json_data.ordering_index) :
         \E t1, t2 \in 1..Len(json_data.ordering_index[a]) :
            /\ json_data.ordering_index[a][t1] = 0
            /\ json_data.ordering_index[a][t2] < 0
            /\ json_data.a_priori[a][t1] # json_data.a_posteriori[a][t1]
            /\ json_data.a_priori[a][t2] = <<>>

\* a row or column without a present cell has nothing above the threshold
DroppedRowsBelowThreshold ==
    \A a \in FileLevels \ KeptLevels : ~RowPasses(a, kwargs.prune_zero)
DroppedColsBelowThreshold ==
    \A t \in FileTimes \ KeptTimes : ~ColPasses(t, kwargs.prune_zero)

SameShapes ==
    /\ Shape(json_data.a_priori) = Shape(json_data.a_posteriori)
    /\ Len(json_data.a_priori) = Len(json_data.level_heights)
    /\ \A a \in 1..Len(json_data.a_priori) :
         /\ Len(json_data.a_priori[a]) = Len(json_data.emission_times)
         /\ Len(json_data.a_posteriori[a]) = Len(json_data.emission_times)

\* C2 as stated: after pruning, the two fields have the same shape and every
\* dropped row and every dropped column has max(A) + max(B) <= threshold.
C2_DroppedBelowThreshold ==
    Pruned => (SameShapes /\ DroppedRowsBelowThreshold /\ DroppedColsBelowThreshold)

\* C2 amended: the same shapes and dropped rows always; the dropped columns
\* when the caller gives neither valid_times_min nor valid_times_max (an
\* explicit bound may drop a column that is above the threshold).
C2_DroppedBelowThresholdNoBounds ==
    Pruned => /\ SameShapes
              /\ DroppedRowsBelowThreshold
              /\ NoExplicitBounds => DroppedColsBelowThreshold

C2_Witness ==
    /\ Pruned
    /\ NoExplicitBounds
    /\ FileLevels \ KeptLevels # {}
    /\ FileTimes \ KeptTimes # {}
    /\ KeptTimes # {}

\* C3: when no row, or no column, has max(A) + max(B) > threshold, pruning
\* raises an error, whether or not explicit time bounds are given.
C3_NoDataRaises ==
    (/\ pc \in {"done", "raised"}
     /\ kwargs.prune
     /\ \/ \A a \in FileLevels : ~RowPasses(a, kwargs.prune_zero)
        \/ \A t \in FileTimes : ~ColPasses(t, kwargs.prune_zero))
    => outcome = "ValueError"

BoxOf(F(_, _), rows, lo, n) == [a \in 1..rows |-> [t \in 1..n |-> F(a, lo + t)]]

\* C10: pruning crops the two fields, the ordering index and both label
\* arrays to rows [0, lastPassingRow + 1) and columns [lo, hi), where lo is
\* valid_times_min if given, else the first passing column, and hi is
\* valid_times_max if given, else the last passing column + 1.
C10_OneBoundingBox ==
    Pruned =>
        LET z == kwargs.prune_zero
            rows == SetMax({a \in FileLevels : RowPasses(a, z)})
            passing == {t \in FileTimes : ColPasses(t, z)}
            lo == IF kwargs.valid_times_min # None
                  THEN kwargs.valid_times_min[1] ELSE SetMin(passing) - 1
            hi == IF kwargs.valid_times_max # None
                  THEN kwargs.valid_times_max[1] ELSE SetMax(passing)
            n == IF hi > lo THEN hi - lo ELSE 0
        IN  /\ json_data.a_priori = BoxOf(FilePrior, rows, lo, n)
            /\ json_data.a_posteriori = BoxOf(FilePost, rows, lo, n)
            /\ json_data.ordering_index = BoxOf(FileIndex, rows, lo, n)
            /\ json_data.level_heights = [a \in 1..rows |-> a - 1]
            /\ json_data.emission_times = [t \in 1..n |-> lo + t - 1]

\* a non-passing row kept below the last passing one, an explicit lower time
\* bound that drops the first passing column, the upper bound computed
C10_Witness ==
    /\ Pruned
    /\ kwargs.valid_times_min # None
    /\ kwargs.valid_times_max = None
    /\ \E a \in KeptLevels : ~RowPasses(a, kwargs.prune_zero)
    /\ \E t \in FileTimes \ KeptTimes : ColPasses(t, kwargs.prune_zero)
    /\ KeptTimes # {}

-----------------------------------------------------------------------------
(* downsample, Plot.py 293-338 *)

RECURSIVE prime_factors_loop(_, _, _)
\* the while loop of lines 300-305 and the tail of lines 306-308
prime_factors_loop(i, n, factors) ==
    IF i * i <= n
    THEN IF (n % i) # 0
         THEN prime_factors_loop(i + 1, n, factors)
         ELSE prime_factors_loop(i, n \div i, Append(factors, i))
    ELSE IF n > 1 THEN Append(factors, n) ELSE factors

prime_factors(n) == prime_factors_loop(2, n, <<>>)

\* (shape / (factor*f)) > output, line 315: a true division by the positive
\* integer factor*f, compared exactly
QuotientAbove(shape, divisor, output) == shape > output * divisor

RECURSIVE find_factor_adds_loop(_, _, _, _, _)
find_factor_adds_loop(shape, output, factors, k, factor) ==
    IF k > Len(factors) THEN factor
    ELSE IF QuotientAbove(shape, factor * factors[k], output)
         THEN find_factor_adds_loop(shape, output, factors, k + 1, factor + factors[k])
         ELSE factor

\* mutant: "factor += f" in place of "factor *= f"
find_downsample_factorAdds(shape, output) ==
    find_factor_adds_loop(shape, output, prime_factors(shape), 1, 1)

RECURSIVE find_factor_geq_loop(_, _, _, _, _)
find_factor_geq_loop(shape, output, factors, k, factor) ==
    IF k > Len(factors) THEN factor
    ELSE IF shape >= output * (factor * factors[k])
         THEN find_factor_geq_loop(shape, output, factors, k + 1, factor * factors[k])
         ELSE factor

\* mutant: ">=" in place of ">" in line 315
find_downsample_factorGeq(shape, output) ==
    find_factor_geq_loop(shape, output, prime_factors(shape), 1, 1)

RECURSIVE find_factor_loop(_, _, _, _, _)
\* the for loop of lines 314-318, at the k-th prime of factors
find_factor_loop(shape, output, factors, k, factor) ==
    IF k > Len(factors) THEN factor
    ELSE IF QuotientAbove(shape, factor * factors[k], output)
         THEN find_factor_loop(shape, output, factors, k + 1, factor * factors[k])
         ELSE factor

find_downsample_factor(shape, output) ==
    find_factor_loop(shape, output, prime_factors(shape), 1, 1)

\* A rational result cell is <<numerator, denominator>>, not reduced.
RECURSIVE SeqSum(_)
SeqSum(s) == IF s = <<>> THEN 0 ELSE s[1] + SeqSum(Tail(s))

SeqRange(s) == {s[i] : i \in 1..Len(s)}

RECURSIVE Insert(_, _)
Insert(x, s) ==
    IF s = <<>> THEN <<x>>
    ELSE IF x <= s[1] THEN <<x>> \o s ELSE <<s[1]>> \o Insert(x, Tail(s))

RECURSIVE Sorted(_)
Sorted(s) == IF s = <<>> THEN <<>> ELSE Insert(s[1], Sorted(Tail(s)))

\* the middle element of a sorted vector, or the mean of its two middle elements
Middle(t) ==
    IF Len(t) % 2 = 1
    THEN <<t[(Len(t) + 1) \div 2], 1>>
    ELSE <<t[Len(t) \div 2] + t[Len(t) \div 2 + 1], 2>>

\* np.median of a vector of integers
Median(s) == Middle(Sorted(s))

\* arr.reshape(shape)[i, p, j, q], 0-based, in row-major order
Reshaped(arr, shape, i, p, j, q) ==
    LET k == ((i * shape[2] + p) * shape[3] + j) * shape[4] + q
        C == Shape(arr)[2]
    IN  arr[(k \div C) + 1][(k % C) + 1]

\* arr.reshape(shape)[i, p, j, :]
LastAxis(arr, shape, i, p, j) ==
    [q \in 1..shape[4] |-> Reshaped(arr, shape, i, p, j, q - 1)]

\* line 327: .mean(-1).mean(1)
MeanOfMeans(arr, shape, i, j) ==
    <<SeqSum([p \in 1..shape[2] |-> SeqSum(LastAxis(arr, shape, i, p - 1, j))]),
      shape[4] * shape[2]>>

\* line 329: np.median(np.median(..., axis=-1), axis=1); the inner medians
\* of one block share their denominator
MedianOfMedians(arr, shape, i, j) ==
    LET outer == Median([p \in 1..shape[2] |-> Median(LastAxis(arr, shape, i, p - 1, j))[1]])
    IN  <<outer[1], outer[2] * Median(LastAxis(arr, shape, i, 0, j))[2]>>

\* line 331: .max(-1).max(1)
MaxOfMaxes(arr, shape, i, j) ==
    <<SetMax({SetMax(SeqRange(LastAxis(arr, shape, i, p - 1, j))) : p \in 1..shape[2]}), 1>>

\* line 333: .min(-1).min(1)
MinOfMins(arr, shape, i, j) ==
    <<SetMin({SetMin(SeqRange(LastAxis(arr, shape, i, p - 1, j))) : p \in 1..shape[2]}), 1>>

Aggregated(arr, shape, rebin_type) ==
    [i \in 1..shape[1] |-> [j \in 1..shape[3] |->
        CASE rebin_type = "mean" -> MeanOfMeans(arr, shape, i - 1, j - 1)
          [] rebin_type = "median" -> MedianOfMedians(arr, shape, i - 1, j - 1)
          [] rebin_type = "max" -> MaxOfMaxes(arr, shape, i - 1, j - 1)
          [] rebin_type = "min" -> MinOfMins(arr, shape, i - 1, j - 1)]]

\* What a call hands back: kind "arr" is the argument array itself, "new" a
\* newly allocated array of content val, "None" the value None, "raise" the
\* exception named by val.
Returned(kind, val) == [kind |-> kind, val |-> val]

\* lines 321-335.  The integer divisions of lines 324-325 raise on a zero
\* divisor; reshape raises when the sizes do not multiply to arr's size; an
\* if/elif chain without else falls off the end of the function.
rebin(arr, new_shape, rebin_type) ==
    IF new_shape[1] < Shape(arr)[1] \/ new_shape[2] < Shape(arr)[2]
    THEN IF new_shape[1] = 0 \/ new_shape[2] = 0
         THEN Returned("raise", "ZeroDivisionError")
         ELSE LET shape == <<new_shape[1], Shape(arr)[1] \div new_shape[1],
                             new_shape[2], Shape(arr)[2] \div new_shape[2]>>
              IN  IF rebin_type \notin {"mean", "median", "max", "min"}
                  THEN Returned("None", <<>>)
                  ELSE IF shape[1] * shape[2] * shape[3] * shape[4]
                            # Shape(arr)[1] * Shape(arr)[2]
                       THEN Returned("raise", "ValueError")
                       ELSE Returned("new", Aggregated(arr, shape, rebin_type))
    ELSE Returned("arr", <<>>)

\* mutant: rebin called with the target itself (line 337 without the factors)
downsampleToTarget(arr, target, rebin_type) ==
    rebin(arr, target, rebin_type)

\* lines 337-338
downsample(arr, target, rebin_type) ==
    rebin(arr,
          <<Shape(arr)[1] \div find_downsample_factor(Shape(arr)[1], target[1]),
            Shape(arr)[2] \div find_downsample_factor(Shape(arr)[2], target[2])>>,
          rebin_type)

-----------------------------------------------------------------------------
(* plotAshInvMatrix, Plot.py 341-369 *)

\* The caller's matrix: four constant quadrants, split after row kr and
\* after column kc
InitPlot ==
    \E R \in 1..MaxDim, C \in 1..MaxDim :
      \E kr \in 1..R, kc \in 1..C, quadrant \in [1..2 -> [1..2 -> Values]] :
        /\ matrix = [i \in 1..R |-> [j \in 1..C |->
                        quadrant[IF i <= kr THEN 1 ELSE 2][IF j <= kc THEN 1 ELSE 2]]]
        /\ ppc = "start"
        /\ args = None
        /\ m = "unbound"
        /\ fresh = <<>>
        /\ perr = "none"
        /\ IdleReadJson
        /\ IdleFactor

\* lines 352-354 with do_downsample=True
Downsample(fig_size, rebin_type) ==
    /\ ppc = "start"
    /\ args' = [do_downsample |-> TRUE, rebin_type |-> rebin_type, fig_size |-> fig_size]
    /\ LET r == downsample(matrix, fig_size, rebin_type)
       IN  CASE r.kind = "arr" ->
                    m' = "matrix" /\ ppc' = "downsampled" /\ UNCHANGED <<fresh, perr>>
             [] r.kind = "new" ->
                    m' = "fresh" /\ fresh' = r.val /\ ppc' = "downsampled" /\ UNCHANGED perr
             [] r.kind = "None" ->
                    m' = "None" /\ ppc' = "downsampled" /\ UNCHANGED <<fresh, perr>>
             [] r.kind = "raise" ->
                    perr' = r.val /\ ppc' = "raised" /\ UNCHANGED <<m, fresh>>
    /\ UNCHANGED <<matrix, rjvars, fvars>>

DownsampleCall ==
    \E t0 \in 0..MaxTarget, t1 \in 0..MaxTarget, rebin_type \in RebinTypes :
        Downsample(<<t0, t1>>, rebin_type)

\* line 352 with do_downsample=False: m is the caller's matrix
SkipDownsample ==
    /\ ppc = "start"
    /\ args' = [do_downsample |-> FALSE, rebin_type |-> "median", fig_size |-> <<0, 0>>]
    /\ m' = "matrix"
    /\ ppc' = "downsampled"
    /\ UNCHANGED <<matrix, fresh, perr, rjvars, fvars>>

\* line 357, m[m<0] = 0.0, written into the array m refers to; None < 0
\* raises TypeError
ClampNegatives ==
    /\ ppc = "downsampled"
    /\ CASE m = "matrix" ->
                /\ matrix' = [i \in 1..Len(matrix) |-> [j \in 1..Len(matrix[i]) |->
                                 IF matrix[i][j] < 0 THEN 0 ELSE matrix[i][j]]]
                /\ ppc' = "clamped"
                /\ UNCHANGED <<fresh, perr>>
         [] m = "fresh" ->
                /\ fresh' = [i \in 1..Len(fresh) |-> [j \in 1..Len(fresh[i]) |->
                                 IF fresh[i][j][1] < 0 THEN <<0, 1>> ELSE fresh[i][j]]]
                /\ ppc' = "clamped"
                /\ UNCHANGED <<matrix, perr>>
         [] m = "None" ->
                /\ perr' = "TypeError"
                /\ ppc' = "raised"
                /\ UNCHANGED <<matrix, fresh>>
    /\ UNCHANGED <<args, m, rjvars, fvars>>

NextPlot == DownsampleCall \/ SkipDownsample \/ ClampNegatives

SpecPlot == InitPlot /\ [][NextPlot]_vars

-----------------------------------------------------------------------------
(* find_downsample_factor on its own, Plot.py 310-319 *)

InitFactor ==
    /\ fshape \in 1..MaxShape
    /\ foutput \in 0..MaxOutput
    /\ ffactor = 0
    /\ fpc = "called"
    /\ IdleReadJson
    /\ IdlePlot

FindFactor ==
    /\ fpc = "called"
    /\ ffactor' = find_downsample_factor(fshape, foutput)
    /\ fpc' = "returned"
    /\ UNCHANGED <<fshape, foutput, rjvars, pvars>>

NextFactor == FindFactor

SpecFactor == InitFactor /\ [][NextFactor]_vars

-----------------------------------------------------------------------------
(* The three functions together *)

Init == InitReadJson \/ InitPlot \/ InitFactor
Next == NextReadJson \/ NextPlot \/ NextFactor
Spec == Init /\ [][Next]_vars

-----------------------------------------------------------------------------
(* Properties of downsample *)

KnownRebinTypes == {"mean", "median", "max", "min"}

\* downsample was called and has handed back a value or raised; the later
\* TypeError of line 357 is not downsample's
DownsampleReturned == ppc = "downsampled" /\ args.do_downsample
DownsampleRaised == ppc = "raised" /\ perr # "TypeError"
DownsampleLeft == DownsampleReturned \/ DownsampleRaised

\* the array m refers to
Deref == IF m = "matrix" THEN matrix ELSE fresh

RowFactor == find_downsample_factor(Shape(matrix)[1], args.fig_size[1])
ColFactor == find_downsample_factor(Shape(matrix)[2], args.fig_size[2])

\* equality of two rationals <<numerator, denominator>>
RatEq(x, y) == x[1] * y[2] = y[1] * x[2]

\* C4: for an aggregator among mean, median, max and min, the two factors
\* divide the input's sides exactly and the matrix returned has shape
\* (R // f0, C // f1).
C4_ShapeGuarantee ==
    (DownsampleLeft /\ args.rebin_type \in KnownRebinTypes) =>
        /\ Shape(matrix)[1] % RowFactor = 0
        /\ Shape(matrix)[2] % ColFactor = 0
        /\ DownsampleReturned
        /\ m \in {"matrix", "fresh"}
        /\ Shape(Deref) = <<Shape(matrix)[1] \div RowFactor, Shape(matrix)[2] \div ColFactor>>
        /\ \A i \in 1..Len(Deref) : Len(Deref[i]) = Shape(matrix)[2] \div ColFactor

\* both axes reduced, by different factors, to more than one row
C4_Witness ==
    /\ DownsampleReturned
    /\ args.rebin_type \in KnownRebinTypes
    /\ m = "fresh"
    /\ RowFactor > 1
    /\ ColFactor > RowFactor
    /\ Len(fresh) > 1

\* a 4x4 matrix made of four constant 2x2 blocks
FourConstantBlocks ==
    /\ Shape(matrix) = <<4, 4>>
    /\ \A i, j \in 1..4 :
         matrix[i][j] = matrix[2 * ((i - 1) \div 2) + 1][2 * ((j - 1) \div 2) + 1]

\* the 2x2 matrix of the block constants was returned
BlockConstantsReturned ==
    /\ DownsampleReturned
    /\ m = "fresh"
    /\ Shape(fresh) = <<2, 2>>
    /\ \A i, j \in 1..2 : RatEq(fresh[i][j], <<matrix[2 * i - 1][2 * j - 1], 1>>)

\* C5 as stated: four constant 2x2 blocks, target (2, 2), aggregator mean,
\* max or min: the 2x2 matrix of the block constants is returned.
C5_BlocksToTarget22 ==
    (/\ DownsampleLeft
     /\ FourConstantBlocks
     /\ args.fig_size = <<2, 2>>
     /\ args.rebin_type \in {"mean", "max", "min"})
    => BlockConstantsReturned

\* C5 amended: the same with target (1, 1); for target (2, 2) the quotient
\* 4 / 2 is not above the target and the 4x4 input itself is returned.
C5_BlocksToTarget11 ==
    /\ (/\ DownsampleLeft
        /\ FourConstantBlocks
        /\ args.fig_size = <<1, 1>>
        /\ args.rebin_type \in {"mean", "max", "min"})
       => BlockConstantsReturned
    /\ (/\ DownsampleLeft
        /\ FourConstantBlocks
        /\ args.fig_size = <<2, 2>>
        /\ args.rebin_type \in {"mean", "max", "min"})
       => (DownsampleReturned /\ m = "matrix")

\* blocks of different constants, aggregated by mean
C5_Witness ==
    /\ DownsampleReturned
    /\ FourConstantBlocks
    /\ args.fig_size = <<1, 1>>
    /\ args.rebin_type = "mean"
    /\ m = "fresh"
    /\ matrix[1][1] # matrix[1][3]
    /\ matrix[1][1] # matrix[3][1]

\* C6: with an aggregator name other than mean, median, max, min the call
\* raises; it never returns a value.
C6_UnknownAggregatorRaises ==
    DownsampleReturned => args.rebin_type \in KnownRebinTypes

\* C7: downsample returns a newly allocated array that does not alias its
\* input, also when no axis is reduced.
C7_ResultIsNewArray ==
    (DownsampleReturned /\ args.rebin_type \in KnownRebinTypes) => m = "fresh"

\* the values of block (i, j) of the input, row by row
BlockValues(i, j) ==
    LET f0 == Shape(matrix)[1] \div Len(fresh)
        f1 == Shape(matrix)[2] \div Len(fresh[1])
    IN  [k \in 1..(f0 * f1) |->
            matrix[(i - 1) * f0 + ((k - 1) \div f1) + 1][(j - 1) * f1 + ((k - 1) % f1) + 1]]

BlockStatistic(rebin_type, values) ==
    CASE rebin_type = "mean" -> <<SeqSum(values), Len(values)>>
      [] rebin_type = "median" -> Median(values)
      [] rebin_type = "max" -> <<SetMax(SeqRange(values)), 1>>
      [] rebin_type = "min" -> <<SetMin(SeqRange(values)), 1>>

CellsAreBlockStatistics ==
    \A i \in 1..Len(fresh) : \A j \in 1..Len(fresh[i]) :
        RatEq(fresh[i][j], BlockStatistic(args.rebin_type, BlockValues(i, j)))

\* C9: every cell of the downsampled matrix is the aggregator's statistic
\* (median, like mean, max and min) of all f0*f1 values of its block.
C9_CellIsBlockStatistic ==
    (DownsampleReturned /\ m = "fresh" /\ args.rebin_type \in KnownRebinTypes)
    => CellsAreBlockStatistics

\* the part of C9 that the code meets: mean, max and min
C9_MeanMaxMinAreBlockStatistics ==
    (DownsampleReturned /\ m = "fresh" /\ args.rebin_type \in {"mean", "max", "min"})
    => CellsAreBlockStatistics

-----------------------------------------------------------------------------
(* Properties of find_downsample_factor *)

IsPrime(p) == p > 1 /\ \A d \in 2..(p - 1) : p % d # 0

RECURSIVE Product(_, _)
\* the product of the first k elements of s
Product(s, k) == IF k = 0 THEN 1 ELSE s[k] * Product(s, k - 1)

\* s is the prime factorisation of n in ascending order
IsAscendingFactorisation(s, n) ==
    /\ \A i \in 1..Len(s) : IsPrime(s[i])
    /\ \A i \in 1..(Len(s) - 1) : s[i] <= s[i + 1]
    /\ Product(s, Len(s)) = n

\* C8: the factor returned is the product of the longest prefix of the
\* ascending prime factorisation of n whose quotient n / product is above
\* the target t: n // f > t when n > t, one more prime would bring the
\* quotient to t or below, and f = 1 when t >= n.
C8_LongestPrefixAboveTarget ==
    fpc = "returned" =>
        LET primes == prime_factors(fshape)
        IN  /\ IsAscendingFactorisation(primes, fshape)
            /\ \E k \in 0..Len(primes) :
                 /\ ffactor = Product(primes, k)
                 /\ \A j \in 1..k : fshape > foutput * Product(primes, j)
                 /\ k < Len(primes) => fshape <= foutput * Product(primes, k + 1)
            /\ fshape % ffactor = 0
            /\ fshape > foutput => fshape \div ffactor > foutput
            /\ foutput >= fshape => ffactor = 1

\* two primes taken, a third left
C8_Witness ==
    /\ fpc = "returned"
    /\ foutput >= 1
    /\ Len(prime_factors(ffactor)) >= 2
    /\ fshape \div ffactor > 1
    /\ IsPrime(fshape \div ffactor)

=============================================================================
